---- MODULE Spec2Model ----
(***************************************************************************)
(* Model of the two image services of the repository:                      *)
(*   flux  = src/flux__1-dev部署/main.py          (text-to-image)          *)
(*   qwen  = src/qwen-image-edit-2509部署/main.py (image editing)          *)
(* Each program loads one pipeline at import time, then serves a FastAPI   *)
(* application on the main thread and a Gradio UI on a background thread.  *)
(*                                                                         *)
(* Conventions.                                                            *)
(*  - A text is a sequence of one-character strings.                       *)
(*  - Python's None is the value None below; a raised exception is a       *)
(*    record with raised = TRUE.                                           *)
(*  - Floats with one decimal (guidance_scale) are counted in tenths.      *)
(***************************************************************************)
EXTENDS Integers, Sequences, FiniteSets, TLC

(***************************************************************************)
(* Bounds of the model.                                                    *)
(***************************************************************************)
MaxPixels == 2
MaxImages == 3
MaxFiles == 2
UIThreads == 2

None == <<"<None>">>

(***************************************************************************)
(* base64 (Python's base64.b64encode / base64.b64decode, the latter in its *)
(* default non-validating mode: characters outside the alphabet are        *)
(* discarded, a complete pad sequence ends the parse).                     *)
(***************************************************************************)
B64Alphabet ==
  << "A","B","C","D","E","F","G","H","I","J","K","L","M","N","O","P",
     "Q","R","S","T","U","V","W","X","Y","Z","a","b","c","d","e","f",
     "g","h","i","j","k","l","m","n","o","p","q","r","s","t","u","v",
     "w","x","y","z","0","1","2","3","4","5","6","7","8","9","+","/" >>

B64Char(n) == B64Alphabet[n + 1]

InB64Alphabet(c) == \E i \in 1..64 : B64Alphabet[i] = c

B64Index(c) == (CHOOSE i \in 1..64 : B64Alphabet[i] = c) - 1

RECURSIVE b64encode(_)
b64encode(bytes) ==
  IF Len(bytes) = 0 THEN << >>
  ELSE IF Len(bytes) = 1 THEN
    << B64Char(bytes[1] \div 4), B64Char((bytes[1] % 4) * 16), "=", "=" >>
  ELSE IF Len(bytes) = 2 THEN
    << B64Char(bytes[1] \div 4),
       B64Char((bytes[1] % 4) * 16 + bytes[2] \div 16),
       B64Char((bytes[2] % 16) * 4), "=" >>
  ELSE
    << B64Char(bytes[1] \div 4),
       B64Char((bytes[1] % 4) * 16 + bytes[2] \div 16),
       B64Char((bytes[2] % 16) * 4 + bytes[3] \div 64),
       B64Char(bytes[3] % 64) >>
    \o b64encode(SubSeq(bytes, 4, Len(bytes)))

\* binascii.a2b_base64, strict_mode off: quad is the position in the current
\* group of four, left the bits carried over, pads the '=' seen in a row.
RECURSIVE a2b_base64(_, _, _, _, _, _)
a2b_base64(text, i, quad, left, pads, out) ==
  IF i > Len(text) THEN
    IF quad # 0 THEN [raised |-> TRUE, bytes |-> << >>]
    ELSE [raised |-> FALSE, bytes |-> out]
  ELSE IF text[i] = "=" THEN
    IF quad >= 2 /\ quad + pads + 1 >= 4
    THEN [raised |-> FALSE, bytes |-> out]
    ELSE a2b_base64(text, i + 1, quad, left,
                    IF quad >= 2 THEN pads + 1 ELSE pads, out)
  ELSE IF ~InB64Alphabet(text[i]) THEN
    a2b_base64(text, i + 1, quad, left, pads, out)
  ELSE
    LET c == B64Index(text[i]) IN
    CASE quad = 0 -> a2b_base64(text, i + 1, 1, c, 0, out)
      [] quad = 1 -> a2b_base64(text, i + 1, 2, c % 16, 0,
                                Append(out, left * 4 + c \div 16))
      [] quad = 2 -> a2b_base64(text, i + 1, 3, c % 4, 0,
                                Append(out, left * 16 + c \div 4))
      [] quad = 3 -> a2b_base64(text, i + 1, 0, 0, 0,
                                Append(out, left * 64 + c))

b64decode(text) == a2b_base64(text, 1, 0, 0, 0, << >>)

(***************************************************************************)
(* Images.  An image is [mode, size, data]: size is the number of pixel    *)
(* bytes its header announces, data the pixel bytes present.  PIL opens    *)
(* files lazily: Image.open reads the header only, and the pixel data is   *)
(* read by the first operation that needs it (load, convert, save).        *)
(***************************************************************************)
PixelVals == {0, 255}

Modes == {"L", "RGB", "RGBA", "CMYK"}

\* The modes the PNG writer accepts, with the colour type it stores.
PngModes == {"L", "RGB", "RGBA"}

PngColourType(mode) ==
  CASE mode = "L" -> 0 [] mode = "RGB" -> 2 [] mode = "RGBA" -> 6

PngModeOf(code) ==
  CASE code = 0 -> "L" [] code = 2 -> "RGB" [] code = 6 -> "RGBA"

PngSignature == <<137, 80>>

NoImage == [mode |-> "none", size |-> 0, data |-> << >>]

PixelSeqs(n) == UNION {[1..k -> PixelVals] : k \in 0..n}

\* Fully loaded in-memory images.
Images == {[mode |-> m, size |-> Len(d), data |-> d] :
             m \in Modes, d \in PixelSeqs(MaxPixels)}

\* Image.load: reads the pixel data; a file with fewer bytes than its header
\* announces raises OSError("image file is truncated").
Loads(img) == Len(img.data) = img.size

\* Image.save(buffered, format="PNG"); buffered.getvalue()
PngSave(image) ==
  IF ~Loads(image) \/ image.mode \notin PngModes
  THEN [raised |-> TRUE, bytes |-> << >>]
  ELSE [raised |-> FALSE,
        bytes |-> PngSignature
                  \o <<PngColourType(image.mode), image.size>>
                  \o image.data]

\* Image.open(io.BytesIO(img_data)): identifies the file from its header.
ImageOpen(bytes) ==
  IF /\ Len(bytes) >= 4
     /\ SubSeq(bytes, 1, 2) = PngSignature
     /\ bytes[3] \in {0, 2, 6}
  THEN [raised |-> FALSE, cause |-> "",
        image |-> [mode |-> PngModeOf(bytes[3]),
                   size |-> bytes[4],
                   data |-> SubSeq(bytes, 5,
                                   IF Len(bytes) < 4 + bytes[4]
                                   THEN Len(bytes) ELSE 4 + bytes[4])]]
  ELSE [raised |-> TRUE, cause |-> "cannot identify image file",
        image |-> NoImage]

\* pil_image.convert("RGB")
ConvertRGB(image) ==
  IF ~Loads(image)
  THEN [raised |-> TRUE, cause |-> "image file is truncated", image |-> NoImage]
  ELSE [raised |-> FALSE, cause |-> "", image |-> [image EXCEPT !.mode = "RGB"]]

(***************************************************************************)
(* MediaCodec: image_to_base64 and base64_to_image.                        *)
(***************************************************************************)
DataUriPrefix ==
  << "d","a","t","a",":","i","m","a","g","e","/","p","n","g",";",
     "b","a","s","e","6","4","," >>

\* str.split(","): the pieces between the separators, all of them.
RECURSIVE SplitComma(_)
SplitComma(text) ==
  IF \A i \in 1..Len(text) : text[i] # ","
  THEN <<text>>
  ELSE LET i == CHOOSE k \in 1..Len(text) :
                  /\ text[k] = ","
                  /\ \A j \in 1..(k - 1) : text[j] # ","
       IN <<SubSeq(text, 1, i - 1)>>
          \o SplitComma(SubSeq(text, i + 1, Len(text)))

HasComma(text) == \E i \in 1..Len(text) : text[i] = ","

image_to_base64(image) ==
  LET png == PngSave(image) IN
  IF png.raised
  THEN [raised |-> TRUE, cause |-> "cannot write image as PNG", text |-> << >>]
  ELSE [raised |-> FALSE, cause |-> "",
        text |-> DataUriPrefix \o b64encode(png.bytes)]

\* Variant of Base64Payload that forgets the prefix: the whole text is decoded.
PayloadUnstripped(base64_str) == base64_str

\* The part of the text that base64_to_image hands to b64decode.
Base64Payload(base64_str) ==
  IF HasComma(base64_str) THEN SplitComma(base64_str)[2] ELSE base64_str

base64_to_image(base64_str) ==
  LET img_data == b64decode(Base64Payload(base64_str)) IN
  IF img_data.raised
  THEN [raised |-> TRUE, cause |-> "Incorrect padding", image |-> NoImage]
  ELSE ImageOpen(img_data.bytes)

(***************************************************************************)
(* Prompts and Python truthiness.                                          *)
(***************************************************************************)
Whitespace == {" "}

RECURSIVE lstrip(_)
lstrip(text) ==
  IF Len(text) > 0 /\ text[1] \in Whitespace THEN lstrip(Tail(text)) ELSE text

RECURSIVE rstrip(_)
rstrip(text) ==
  IF Len(text) > 0 /\ text[Len(text)] \in Whitespace
  THEN rstrip(SubSeq(text, 1, Len(text) - 1)) ELSE text

strip(text) == rstrip(lstrip(text))

\* `not prompt or prompt.strip() == ""`
PromptMissing(prompt) ==
  \/ prompt = None
  \/ Len(prompt) = 0
  \/ strip(prompt) = << >>

Texts == {<< >>, <<" ">>, <<"a">>, <<" ", "a">>}

(***************************************************************************)
(* flux: ImageGenerationRequest.  guidance_scale is counted in tenths.     *)
(***************************************************************************)
SideMin == 256
SideMax == 2048
GuidanceMin == 0
GuidanceMax == 200
StepsMin == 10
StepsMax == 100
SeqLenMin == 128
SeqLenMax == 1024

DefaultGeneration ==
  [prompt |-> <<"a">>, height |-> 1024, width |-> 1024, guidance_scale |-> 35,
   num_inference_steps |-> 50, max_sequence_length |-> 512, seed |-> 0]

\* pydantic's check of the declared Field constraints; FastAPI runs it before
\* the handler and answers 422 when it fails.
ImageGenerationRequest(req) ==
  /\ req.prompt # None
  /\ Len(req.prompt) >= 1
  /\ req.height >= SideMin /\ req.height <= SideMax
  /\ req.width >= SideMin /\ req.width <= SideMax
  /\ req.guidance_scale >= GuidanceMin /\ req.guidance_scale <= GuidanceMax
  /\ req.num_inference_steps >= StepsMin /\ req.num_inference_steps <= StepsMax
  /\ req.max_sequence_length >= SeqLenMin /\ req.max_sequence_length <= SeqLenMax

Around(lo, hi) == {lo - 1, lo, hi, hi + 1}

Seeds == {0, 1}

\* Generation requests: the default request with one field varied, each
\* bounded field taking the values at and just outside its limits.
GenerationRequests ==
  {[DefaultGeneration EXCEPT !.prompt = p] : p \in Texts \cup {None}}
  \cup {[DefaultGeneration EXCEPT !.height = v] : v \in Around(SideMin, SideMax)}
  \cup {[DefaultGeneration EXCEPT !.width = v] : v \in Around(SideMin, SideMax)}
  \cup {[DefaultGeneration EXCEPT !.guidance_scale = v] :
          v \in Around(GuidanceMin, GuidanceMax)}
  \cup {[DefaultGeneration EXCEPT !.num_inference_steps = v] :
          v \in Around(StepsMin, StepsMax)}
  \cup {[DefaultGeneration EXCEPT !.max_sequence_length = v] :
          v \in Around(SeqLenMin, SeqLenMax)}
  \cup {[DefaultGeneration EXCEPT !.seed = v] : v \in Seeds}
  \cup {[DefaultGeneration EXCEPT !.prompt = << >>, !.height = SideMin - 1]}

\* The requests used when requests overlap: seed and step count vary.
SmallGenerationRequests ==
  {[DefaultGeneration EXCEPT !.seed = s, !.num_inference_steps = n] :
     s \in Seeds, n \in {StepsMin, 50}}

(***************************************************************************)
(* qwen: ImageEditRequest.  Both scales are counted in tenths.             *)
(***************************************************************************)
EditScaleMin == 0
EditScaleMax == 100

Rgb1 == [mode |-> "RGB", size |-> 1, data |-> <<0>>]
Rgba1 == [mode |-> "RGBA", size |-> 1, data |-> <<255>>]

\* Encoded images a client may send: with the prefix, without it, and broken
\* in each way the decoder can meet.
TextRgb == image_to_base64(Rgb1).text
TextRgbaBare == Base64Payload(image_to_base64(Rgba1).text)
TextBadPadding == SubSeq(TextRgb, 1, Len(TextRgb) - 1)
TextNotImage == DataUriPrefix \o b64encode(<<1, 2, 3>>)
TextTruncatedRgb == DataUriPrefix \o b64encode(PngSignature \o <<2, 2, 0>>)
TextTruncatedRgba == b64encode(PngSignature \o <<6, 2, 0>>)

EditTexts ==
  {TextRgb, TextRgbaBare, TextBadPadding, TextNotImage,
   TextTruncatedRgb, TextTruncatedRgba}

SeqsUpTo(S, n) == UNION {[1..k -> S] : k \in 0..n}

DefaultEdit ==
  [images |-> <<TextRgb>>, prompt |-> <<"a">>, negative_prompt |-> <<" ">>,
   num_inference_steps |-> 40, guidance_scale |-> 10, true_cfg_scale |-> 40,
   seed |-> 0]

ImageEditRequest(req) ==
  /\ Len(req.images) >= 1
  /\ req.prompt # None
  /\ Len(req.prompt) >= 1
  /\ req.num_inference_steps >= StepsMin /\ req.num_inference_steps <= StepsMax
  /\ req.guidance_scale >= EditScaleMin /\ req.guidance_scale <= EditScaleMax
  /\ req.true_cfg_scale >= EditScaleMin /\ req.true_cfg_scale <= EditScaleMax

EditRequests ==
  {[DefaultEdit EXCEPT !.images = l, !.prompt = p] :
     l \in SeqsUpTo(EditTexts, MaxImages), p \in {<< >>, <<" ">>, <<"a">>}}
  \cup {[DefaultEdit EXCEPT !.negative_prompt = n] : n \in Texts \cup {None}}
  \cup {[DefaultEdit EXCEPT !.num_inference_steps = v] :
          v \in Around(StepsMin, StepsMax)}
  \cup {[DefaultEdit EXCEPT !.guidance_scale = v] :
          v \in Around(EditScaleMin, EditScaleMax)}
  \cup {[DefaultEdit EXCEPT !.true_cfg_scale = v] :
          v \in Around(EditScaleMin, EditScaleMax)}
  \cup {[DefaultEdit EXCEPT !.seed = v] : v \in Seeds}

SmallEditRequests ==
  {[DefaultEdit EXCEPT !.seed = s] : s \in Seeds}

(***************************************************************************)
(* qwen UI: the value of the file input.  An item is what Gradio or a      *)
(* direct caller hands over: a path, a file object with a name, a PIL      *)
(* image or a pixel array; opens says whether Image.open / Image.fromarray *)
(* accepts it, image is what it yields.                                    *)
(***************************************************************************)
Item(shape, opens, image) == [shape |-> shape, opens |-> opens, image |-> image]

NoneItem == Item("none", FALSE, NoImage)

FileItems ==
  {NoneItem,
   Item("path", TRUE, Rgb1), Item("path", TRUE, Rgba1),
   Item("path", FALSE, NoImage),
   Item("fileobj", TRUE, Rgb1), Item("fileobj", FALSE, NoImage),
   Item("pil", TRUE, Rgba1),
   Item("ndarray", TRUE, Rgb1), Item("ndarray", FALSE, NoImage)}

\* files is None, a list of items, or one item that is not a list.
NoFiles == [shape |-> "none", items |-> << >>]
FileList(l) == [shape |-> "list", items |-> l]
SingleFile(i) == [shape |-> "single", items |-> <<i>>]

FileValues ==
  {NoFiles}
  \cup {FileList(l) : l \in SeqsUpTo(FileItems, MaxFiles)}
  \cup {SingleFile(i) : i \in FileItems \ {NoneItem}}

DefaultUiEdit ==
  [files |-> FileList(<<Item("path", TRUE, Rgb1)>>), prompt |-> <<"a">>,
   negative_prompt |-> <<" ">>, num_inference_steps |-> 40,
   guidance_scale |-> 10, true_cfg_scale |-> 40, seed |-> 0]

UiEditRequests ==
  {[DefaultUiEdit EXCEPT !.files = f, !.prompt = p] :
     f \in FileValues, p \in {None, << >>, <<" ">>, <<"a">>}}
  \cup {[DefaultUiEdit EXCEPT !.negative_prompt = n] : n \in Texts \cup {None}}
  \cup {[DefaultUiEdit EXCEPT !.seed = v] : v \in Seeds}

SmallUiEditRequests ==
  {[DefaultUiEdit EXCEPT !.seed = s] : s \in Seeds}

(***************************************************************************)
(* State.                                                                  *)
(***************************************************************************)
VARIABLES
  svc,         \* which program runs: "flux" or "qwen"
  proc,        \* "import" (module level), "main" (__main__ block), "exited"
  pipeline,    \* the module global: "unset" or "loaded"
  ui,          \* Gradio listener: "off", "starting", "listening", "failed"
  api,         \* uvicorn listener: "off", "listening"
  workers,     \* the event loop and the UI threads, each handling one request;
               \* fault is the message of the exception the pipeline call or
               \* the output encoding raised, "" if none did
  defaultGen,  \* torch's process-wide default generator
  codec,       \* a MediaCodec round trip outside any request
  launcher     \* __main__: the environment's port settings and the ports
               \* resolved from them

vars == <<svc, proc, pipeline, ui, api, workers, defaultGen, codec, launcher>>

\* The single thread of uvicorn's event loop, and Gradio's worker threads.
Loop == 0
UiWorkers == 1..UIThreads
Workers == {Loop} \cup UiWorkers

NoReq == [prompt |-> None]
NoArgs == [prompt |-> None]

\* Durations are counted in thousandths of a second, the timing fields of a
\* response in hundredths.  round(x, 2): the nearest hundredth, a tie going
\* to the even one.
Round2(ms) ==
  LET q == ms \div 10
      r == ms % 10
  IN IF r < 5 THEN q
     ELSE IF r > 5 THEN q + 1
     ELSE IF q % 2 = 0 THEN q ELSE q + 1

\* What two readings of time.time() can differ by: the wall clock normally
\* does not decrease, and does when the system clock is set back between
\* the two readings.
Durations == {0 - 1000, 0, 4, 5, 1234}
SmallDurations == {1234}

NoTiming ==
  [present |-> FALSE, inference_time_seconds |-> 0,
   encoding_time_seconds |-> 0, total_time_seconds |-> 0]

\* Variant of Timing whose total leaves the encoding out.
TimingWithoutEncoding(inference_duration, base64_duration) ==
  [present |-> TRUE,
   inference_time_seconds |-> Round2(inference_duration),
   encoding_time_seconds |-> Round2(base64_duration),
   total_time_seconds |-> Round2(inference_duration)]

\* The three timing fields of the response of image_generation.
Timing(inference_duration, base64_duration) ==
  [present |-> TRUE,
   inference_time_seconds |-> Round2(inference_duration),
   encoding_time_seconds |-> Round2(base64_duration),
   total_time_seconds |-> Round2(inference_duration + base64_duration)]

NoResp ==
  [kind |-> "none", status |-> 0, ok |-> FALSE, msg |-> "", cause |-> "",
   index |-> 0, image |-> NoImage, b64 |-> << >>, input_count |-> 0,
   loaded |-> FALSE, timing |-> NoTiming]

\* raise HTTPException(status_code=status, detail=...), and FastAPI's 422.
HttpError(status, msg, cause, index) ==
  [NoResp EXCEPT !.kind = "http", !.status = status, !.msg = msg,
                 !.cause = cause, !.index = index]

\* return JSONResponse({"status": "success", ...})
HttpSuccess(b64, count) ==
  [NoResp EXCEPT !.kind = "http", !.status = 200, !.ok = TRUE, !.msg = "done",
                 !.b64 = b64, !.input_count = count]

\* return None, message
UiFailure(msg, cause) ==
  [NoResp EXCEPT !.kind = "ui", !.msg = msg, !.cause = cause]

\* return output_image, message
UiSuccess(image, count) ==
  [NoResp EXCEPT !.kind = "ui", !.ok = TRUE, !.msg = "done", !.image = image,
                 !.input_count = count]

\* An exception that leaves the function.
Raised(cause) == [NoResp EXCEPT !.kind = "raised", !.cause = cause]

IdleWorker ==
  [pc |-> "idle", handler |-> "none", req |-> NoReq, args |-> NoArgs,
   stream |-> << >>, output_image |-> NoImage, fault |-> "",
   inference_duration |-> 0, base64_duration |-> 0, resp |-> NoResp]

Done(handler, req, resp) ==
  [IdleWorker EXCEPT !.pc = "done", !.handler = handler, !.req = req,
                     !.resp = resp]

InEngine(handler, req, args) ==
  [IdleWorker EXCEPT !.pc = "engine", !.handler = handler, !.req = req,
                     !.args = args]

AllIdle == \A w \in Workers : workers[w].pc = "idle"

CodecIdle ==
  [pc |-> "idle", image |-> NoImage, form |-> "none", text |-> << >>,
   result |-> [raised |-> FALSE, cause |-> "", image |-> NoImage]]

(***************************************************************************)
(* __main__: the two ports.  An environment value is None (unset) or a     *)
(* string; the ports are resolved once, before either listener is started. *)
(***************************************************************************)
DigitChars == <<"0", "1", "2", "3", "4", "5", "6", "7", "8", "9">>

IsDigit(c) == \E i \in 1..Len(DigitChars) : DigitChars[i] = c

DigitValue(c) == (CHOOSE i \in 1..Len(DigitChars) : DigitChars[i] = c) - 1

RECURSIVE DigitsValue(_, _)
DigitsValue(body, acc) ==
  IF Len(body) = 0 THEN acc
  ELSE DigitsValue(Tail(body),
                   IF Head(body) = "_" THEN acc
                   ELSE acc * 10 + DigitValue(Head(body)))

\* int(text): surrounding whitespace is dropped, one sign is allowed, the
\* rest is decimal digits with single underscores between them; anything
\* else raises ValueError.
int(text) ==
  LET s == strip(text)
      signed == Len(s) > 0 /\ s[1] \in {"+", "-"}
      body == IF signed THEN Tail(s) ELSE s
      valid == /\ Len(body) > 0
               /\ IsDigit(body[1])
               /\ IsDigit(body[Len(body)])
               /\ \A i \in 1..Len(body) : IsDigit(body[i]) \/ body[i] = "_"
               /\ \A i \in 1..(Len(body) - 1) :
                    ~(body[i] = "_" /\ body[i + 1] = "_")
  IN IF ~valid THEN [raised |-> TRUE, value |-> 0]
     ELSE [raised |-> FALSE,
           value |-> IF signed /\ s[1] = "-"
                     THEN 0 - DigitsValue(body, 0) ELSE DigitsValue(body, 0)]

DefaultGradioPort == 8099

\* os.getenv(...) for GRADIO_PORT and API_PORT.
PortEnvValues ==
  {None, << >>, <<"a", "b", "c">>, <<"8", "0", "9", "9">>,
   <<"8", "1", "0", "0">>, <<"7", "0", "0", "0", "0">>, <<"-", "1">>}

Unresolved(gradio_port_env, api_port_env) ==
  [gradio_port_env |-> gradio_port_env, api_port_env |-> api_port_env,
   resolved |-> FALSE, gradio_port |-> 0, api_port |-> 0, warnings |-> {}]

\* if env: try int(env), except ValueError: warning and the default;
\* else: the default.
PortFrom(env, default) ==
  IF env = None \/ Len(env) = 0
  THEN [port |-> default, warned |-> FALSE]
  ELSE IF int(env).raised
  THEN [port |-> default, warned |-> TRUE]
  ELSE [port |-> int(env).value, warned |-> FALSE]

\* A listener binds the port it is given unless the port is no port number
\* or a listener of this process holds it already (0 asks for any free port).
CanBind(port, held) == port \in 0..65535 /\ (port = 0 \/ port \notin held)

Init ==
  /\ svc \in {"flux", "qwen"}
  /\ proc = "import"
  /\ pipeline = "unset"
  /\ ui = "off"
  /\ api = "off"
  /\ workers = [w \in Workers |-> IdleWorker]
  /\ defaultGen = [seed |-> 0, pos |-> 0]
  /\ codec = CodecIdle
  /\ launcher = Unresolved(None, None)

(***************************************************************************)
(* Start-up: the pipeline is loaded at module level, before the FastAPI    *)
(* application and the Gradio blocks exist; __main__ then starts the       *)
(* Gradio thread and runs uvicorn on the main thread.                      *)
(***************************************************************************)
\* pipeline = ...from_pretrained(...); pipeline.to("cuda")
LoadPipeline ==
  /\ proc = "import"
  /\ pipeline' = "loaded"
  /\ proc' = "main"
  /\ UNCHANGED <<svc, ui, api, workers, defaultGen, codec, launcher>>

\* Variant of LoadFails in which the failure is swallowed and start-up goes on
\* with no pipeline.
LoadFailsSwallowed ==
  /\ proc = "import"
  /\ proc' = "main"
  /\ UNCHANGED <<svc, pipeline, ui, api, workers, defaultGen, codec, launcher>>

\* MODEL_PATH unset (flux) or from_pretrained raising: the import fails and
\* the interpreter exits.
LoadFails ==
  /\ proc = "import"
  /\ proc' = "exited"
  /\ UNCHANGED <<svc, pipeline, ui, api, workers, defaultGen, codec, launcher>>

\* __main__: gradio_port and api_port from GRADIO_PORT and API_PORT.
ResolvePorts ==
  /\ proc = "main"
  /\ ~launcher.resolved
  /\ LET g == PortFrom(launcher.gradio_port_env, DefaultGradioPort)
         a == PortFrom(launcher.api_port_env, g.port + 1)
     IN launcher' =
          [launcher EXCEPT
             !.resolved = TRUE, !.gradio_port = g.port, !.api_port = a.port,
             !.warnings = (IF g.warned THEN {"GRADIO_PORT"} ELSE {})
                          \cup (IF a.warned THEN {"API_PORT"} ELSE {})]
  /\ UNCHANGED <<svc, proc, pipeline, ui, api, workers, defaultGen, codec>>

\* The interpreter exits: the main thread ends and takes the daemon thread
\* and every handler in progress with it.
Exit ==
  /\ proc' = "exited"
  /\ ui' = "off"
  /\ api' = "off"
  /\ workers' = [w \in Workers |-> IdleWorker]
  /\ UNCHANGED <<svc, pipeline, defaultGen, codec, launcher>>

\* gradio_thread = threading.Thread(target=run_gradio, daemon=True).start()
StartGradioThread ==
  /\ proc = "main"
  /\ launcher.resolved
  /\ ui = "off"
  /\ ui' = "starting"
  /\ UNCHANGED <<svc, proc, pipeline, api, workers, defaultGen, codec, launcher>>

\* run_gradio: demo.launch(...) binds and serves, or raises in its thread.
run_gradio(bound) ==
  /\ proc = "main"
  /\ ui = "starting"
  /\ bound => CanBind(launcher.gradio_port,
                      IF api = "listening" THEN {launcher.api_port} ELSE {})
  /\ ui' = IF bound THEN "listening" ELSE "failed"
  /\ UNCHANGED <<svc, proc, pipeline, api, workers, defaultGen, codec, launcher>>

\* Variant of UvicornRun that waits until the UI listener is up.
UvicornRunAfterUi(bound) ==
  /\ proc = "main"
  /\ ui = "listening"
  /\ api = "off"
  /\ bound => CanBind(launcher.api_port, {launcher.gradio_port})
  /\ IF bound
     THEN /\ api' = "listening"
          /\ UNCHANGED <<svc, proc, pipeline, ui, workers, defaultGen, codec,
                         launcher>>
     ELSE Exit

\* uvicorn.run(app, host=host, port=api_port): binds and serves, or fails to
\* bind and ends the process.
UvicornRun(bound) ==
  /\ proc = "main"
  /\ ui # "off"
  /\ api = "off"
  /\ bound => CanBind(launcher.api_port,
                      IF ui = "listening" THEN {launcher.gradio_port} ELSE {})
  /\ IF bound
     THEN /\ api' = "listening"
          /\ UNCHANGED <<svc, proc, pipeline, ui, workers, defaultGen, codec,
                         launcher>>
     ELSE Exit

\* uvicorn.run returns on SIGINT or SIGTERM and __main__ ends.
Terminate ==
  /\ proc = "main"
  /\ api = "listening"
  /\ Exit

(***************************************************************************)
(* The engine.  It is opaque: it returns an image computed from what it is *)
(* handed and from the numbers it draws from the generator it is handed,   *)
(* or it raises.  A generator is [global, seed, pos]; a global one is      *)
(* torch's default generator, whose state is defaultGen.                   *)
(***************************************************************************)
EngineDraws == 2

Draw(seed, pos) == (seed * 97 + pos * 31 + 5) % 256

Stream(gen) == [i \in 1..EngineDraws |-> Draw(gen.seed, gen.pos + i - 1)]

EngineOutcomes == {"image", "encode_raises", "raises"}

EngineImage(digest, stream) ==
  [mode |-> "RGB",
   size |-> Len(stream),
   data |-> [i \in 1..Len(stream) |-> (stream[i] + digest) % 256]]

\* Variant of FluxGenerator that seeds and hands over the default generator,
\* as the edit handlers do.
SharedGenerator(seed) == [global |-> TRUE, seed |-> seed, pos |-> 0]

\* torch.Generator("cpu").manual_seed(seed): a generator of the call's own.
FluxGenerator(seed) == [global |-> FALSE, seed |-> seed, pos |-> 0]

\* torch.manual_seed(seed): reseeds the default generator and returns it.
TorchManualSeed(seed) == [global |-> TRUE, seed |-> seed, pos |-> 0]

\* The default generator after a handler has made its generator.
Reseeded(gen) ==
  IF gen.global THEN [seed |-> gen.seed, pos |-> gen.pos] ELSE defaultGen

(***************************************************************************)
(* Exceptions raised inside a handler's try block, and the except clauses  *)
(* of the two API handlers: an HTTPException is re-raised as it is, any    *)
(* other exception becomes a 500 whose detail carries its message.         *)
(***************************************************************************)
HTTPException(status, msg, cause, index) ==
  [type |-> "HTTPException", status |-> status, msg |-> msg, cause |-> cause,
   index |-> index]

PyException(cause) ==
  [type |-> "Exception", status |-> 0, msg |-> "", cause |-> cause,
   index |-> 0]

\* Variant of GenerationExcept without the `except HTTPException: raise`
\* clause.
GenerationExceptAll(exc) ==
  HttpError(500, "inference_error",
            IF exc.type = "HTTPException" THEN exc.msg ELSE exc.cause, 0)

GenerationExcept(exc) ==
  IF exc.type = "HTTPException"
  THEN HttpError(exc.status, exc.msg, exc.cause, exc.index)
  ELSE HttpError(500, "inference_error", exc.cause, 0)

EditExcept(exc) ==
  IF exc.type = "HTTPException"
  THEN HttpError(exc.status, exc.msg, exc.cause, exc.index)
  ELSE HttpError(500, "inference_error", exc.cause, 0)

\* The UI functions: except Exception as e: return None, "...: " + str(e)
UiExcept(exc) == UiFailure("inference_error", exc.cause)

(***************************************************************************)
(* flux: POST /v1/images/generations and the UI function inference.        *)
(***************************************************************************)
GenerationArgs(prompt, height, width, guidance_scale, num_inference_steps, max_sequence_length, generator) ==
  [prompt |-> prompt, height |-> height, width |-> width,
   guidance_scale |-> guidance_scale,
   num_inference_steps |-> num_inference_steps,
   max_sequence_length |-> max_sequence_length, generator |-> generator,
   image |-> << >>]

GenerationDigest(args) ==
  (Len(args.prompt) + args.height + args.width + args.guidance_scale
   + args.num_inference_steps + args.max_sequence_length) % 256

\* What the handler does with a request up to its call of the pipeline:
\* the worker's next state.
GenerationApiStep(request) ==
  IF ~ImageGenerationRequest(request)
  THEN Done("image_generation", request,
            HttpError(422, "validation_error", "", 0))
  ELSE IF PromptMissing(request.prompt)
  THEN Done("image_generation", request,
            GenerationExcept(HTTPException(400, "prompt_required", "", 0)))
  ELSE InEngine("image_generation", request,
                GenerationArgs(request.prompt, request.height, request.width,
                               request.guidance_scale,
                               request.num_inference_steps,
                               request.max_sequence_length,
                               FluxGenerator(request.seed)))

image_generation(w, request) ==
  /\ svc = "flux"
  /\ w = Loop
  /\ proc = "main"
  /\ api = "listening"
  /\ workers[w].pc = "idle"
  /\ LET next == GenerationApiStep(request) IN
       /\ workers' = [workers EXCEPT ![w] = next]
       /\ defaultGen' = IF next.pc = "engine"
                        THEN Reseeded(next.args.generator) ELSE defaultGen
  /\ UNCHANGED <<svc, proc, pipeline, ui, api, codec, launcher>>

GenerationUiStep(r) ==
  IF PromptMissing(r.prompt)
  THEN Done("flux_inference", r, UiFailure("prompt_required", ""))
  ELSE InEngine("flux_inference", r,
                GenerationArgs(r.prompt, r.height, r.width, r.guidance_scale,
                               r.num_inference_steps, r.max_sequence_length,
                               FluxGenerator(r.seed)))

\* Variant of flux_inference that holds a lock around the pipeline: it
\* waits while another call is inside the pipeline.
LockedInference(w, r) ==
  /\ svc = "flux"
  /\ w \in UiWorkers
  /\ proc = "main"
  /\ ui = "listening"
  /\ workers[w].pc = "idle"
  /\ \A o \in Workers : workers[o].pc # "engine"
  /\ LET next == GenerationUiStep(r) IN
       /\ workers' = [workers EXCEPT ![w] = next]
       /\ defaultGen' = IF next.pc = "engine"
                        THEN Reseeded(next.args.generator) ELSE defaultGen
  /\ UNCHANGED <<svc, proc, pipeline, ui, api, codec, launcher>>

flux_inference(w, r) ==
  /\ svc = "flux"
  /\ w \in UiWorkers
  /\ proc = "main"
  /\ ui = "listening"
  /\ workers[w].pc = "idle"
  /\ LET next == GenerationUiStep(r) IN
       /\ workers' = [workers EXCEPT ![w] = next]
       /\ defaultGen' = IF next.pc = "engine"
                        THEN Reseeded(next.args.generator) ELSE defaultGen
  /\ UNCHANGED <<svc, proc, pipeline, ui, api, codec, launcher>>

(***************************************************************************)
(* qwen: POST /v1/images/edits and the UI function inference.              *)
(***************************************************************************)
EditArgs(image, prompt, generator, true_cfg_scale, negative_prompt, num_inference_steps, guidance_scale) ==
  [image |-> image, prompt |-> prompt, generator |-> generator,
   true_cfg_scale |-> true_cfg_scale, negative_prompt |-> negative_prompt,
   num_inference_steps |-> num_inference_steps,
   guidance_scale |-> guidance_scale, num_images_per_prompt |-> 1]

EditDigest(args) ==
  (Len(args.image) + Len(args.prompt) + Len(args.negative_prompt)
   + args.true_cfg_scale + args.num_inference_steps + args.guidance_scale)
  % 256

\* Variant of ReportedIndex that reports enumerate's own 0-based idx.
ReportedIndexZeroBased(idx) == idx

\* The number an error message gives for the image at enumerate's idx.
ReportedIndex(idx) == idx + 1

\* The loop over enumerate(request.images): decodes and converts in order,
\* and stops at the first image that raises.
RECURSIVE DecodeImages(_, _, _)
DecodeImages(images, idx, pil_images) ==
  IF idx >= Len(images)
  THEN [failed |-> FALSE, index |-> 0, cause |-> "", images |-> pil_images]
  ELSE
    LET opened == base64_to_image(images[idx + 1])
        pil_image == IF opened.raised \/ opened.image.mode = "RGB"
                     THEN opened ELSE ConvertRGB(opened.image)
    IN IF pil_image.raised
       THEN [failed |-> TRUE, index |-> ReportedIndex(idx),
             cause |-> pil_image.cause, images |-> pil_images]
       ELSE DecodeImages(images, idx + 1, Append(pil_images, pil_image.image))

\* request.negative_prompt or " "
OrBlank(negative_prompt) ==
  IF negative_prompt = None \/ Len(negative_prompt) = 0
  THEN <<" ">> ELSE negative_prompt

EditApiStep(request) ==
  IF ~ImageEditRequest(request)
  THEN Done("image_edit", request, HttpError(422, "validation_error", "", 0))
  ELSE IF Len(request.images) = 0
  THEN Done("image_edit", request,
            EditExcept(HTTPException(400, "image_required", "", 0)))
  ELSE IF PromptMissing(request.prompt)
  THEN Done("image_edit", request,
            EditExcept(HTTPException(400, "prompt_required", "", 0)))
  ELSE
    LET decoded == DecodeImages(request.images, 0, << >>) IN
    IF decoded.failed
    THEN Done("image_edit", request,
              EditExcept(HTTPException(400, "cannot_process_image",
                                       decoded.cause, decoded.index)))
    ELSE IF Len(decoded.images) = 0
    THEN Done("image_edit", request,
              EditExcept(HTTPException(400, "no_valid_image", "", 0)))
    ELSE InEngine("image_edit", request,
                  EditArgs(decoded.images, request.prompt,
                           TorchManualSeed(request.seed),
                           request.true_cfg_scale,
                           OrBlank(request.negative_prompt),
                           request.num_inference_steps,
                           request.guidance_scale))

image_edit(w, request) ==
  /\ svc = "qwen"
  /\ w = Loop
  /\ proc = "main"
  /\ api = "listening"
  /\ workers[w].pc = "idle"
  /\ LET next == EditApiStep(request) IN
       /\ workers' = [workers EXCEPT ![w] = next]
       /\ defaultGen' = IF next.pc = "engine"
                        THEN Reseeded(next.args.generator) ELSE defaultGen
  /\ UNCHANGED <<svc, proc, pipeline, ui, api, codec, launcher>>

\* `not files or len(files) == 0` on what the file input holds: a file
\* object and a PIL image have no len(), an array of several elements has no
\* truth value.
UiFilesGuard(files) ==
  CASE files.shape = "none" -> "missing"
    [] files.shape = "list" ->
         IF Len(files.items) = 0 THEN "missing" ELSE "present"
    [] files.shape = "single" ->
         CASE files.items[1].shape = "path" -> "present"
           [] files.items[1].shape \in {"fileobj", "pil"} -> "TypeError"
           [] files.items[1].shape = "ndarray" -> "ValueError"

\* The loop of process_uploaded_files: None and whatever fails to open is
\* skipped.
RECURSIVE OpenFiles(_, _)
OpenFiles(items, images) ==
  IF Len(items) = 0 THEN images
  ELSE OpenFiles(Tail(items),
                 IF Head(items).shape # "none" /\ Head(items).opens
                 THEN Append(images, Head(items).image) ELSE images)

process_uploaded_files(files) ==
  IF files.shape = "none" \/ (files.shape = "list" /\ Len(files.items) = 0)
  THEN << >>
  ELSE OpenFiles(files.items, << >>)

EditUiStep(r) ==
  LET guard == UiFilesGuard(r.files) IN
  IF guard \in {"TypeError", "ValueError"}
  THEN Done("qwen_inference", r, Raised(guard))
  ELSE IF guard = "missing"
  THEN Done("qwen_inference", r, UiFailure("upload_required", ""))
  ELSE IF PromptMissing(r.prompt)
  THEN Done("qwen_inference", r, UiFailure("prompt_required", ""))
  ELSE
    LET images == process_uploaded_files(r.files) IN
    IF Len(images) = 0
    THEN Done("qwen_inference", r, UiFailure("no_valid_upload", ""))
    ELSE InEngine("qwen_inference", r,
                  EditArgs(images, r.prompt, TorchManualSeed(r.seed),
                           r.true_cfg_scale, r.negative_prompt,
                           r.num_inference_steps, r.guidance_scale))

qwen_inference(w, r) ==
  /\ svc = "qwen"
  /\ w \in UiWorkers
  /\ proc = "main"
  /\ ui = "listening"
  /\ workers[w].pc = "idle"
  /\ LET next == EditUiStep(r) IN
       /\ workers' = [workers EXCEPT ![w] = next]
       /\ defaultGen' = IF next.pc = "engine"
                        THEN Reseeded(next.args.generator) ELSE defaultGen
  /\ UNCHANGED <<svc, proc, pipeline, ui, api, codec, launcher>>

(***************************************************************************)
(* The pipeline call returns or raises, and the handler finishes.          *)
(***************************************************************************)
EngineErrors == {"CUDA out of memory"}

\* image_to_base64(output_image) inside the handler's try block: saving the
\* image can raise for want of memory, whatever the image is.
EncodeOutput(output_image, outcome) ==
  IF outcome = "encode_raises"
  THEN [raised |-> TRUE, cause |-> "cannot write image as PNG", text |-> << >>]
  ELSE image_to_base64(output_image)

\* image_generation from the pipeline's return to its response.
GenerationApiReturn(me, outcome, e, stream, inference_duration, base64_duration) ==
  LET output_image == EngineImage(GenerationDigest(me.args), stream)
      output_base64 == EncodeOutput(output_image, outcome)
  IN IF outcome = "raises"
     THEN [me EXCEPT !.pc = "done", !.fault = e,
                     !.resp = GenerationExcept(PyException(e))]
     ELSE [me EXCEPT
             !.pc = "done", !.stream = stream, !.output_image = output_image,
             !.fault = output_base64.cause,
             !.inference_duration = inference_duration,
             !.base64_duration = base64_duration,
             !.resp = IF output_base64.raised
                      THEN GenerationExcept(PyException(output_base64.cause))
                      ELSE [HttpSuccess(output_base64.text, 0) EXCEPT
                              !.timing = Timing(inference_duration,
                                                base64_duration)]]

\* flux inference from the pipeline's return to its result.
GenerationUiReturn(me, outcome, e, stream) ==
  LET output_image == EngineImage(GenerationDigest(me.args), stream)
  IN IF outcome = "raises"
     THEN [me EXCEPT !.pc = "done", !.fault = e,
                     !.resp = UiExcept(PyException(e))]
     ELSE [me EXCEPT
             !.pc = "done", !.stream = stream, !.output_image = output_image,
             !.resp = UiSuccess(output_image, 0)]

\* image_edit from the pipeline's return to its response.
EditApiReturn(me, outcome, e, stream) ==
  LET output_image == EngineImage(EditDigest(me.args), stream)
      output_base64 == EncodeOutput(output_image, outcome)
  IN IF outcome = "raises"
     THEN [me EXCEPT !.pc = "done", !.fault = e,
                     !.resp = EditExcept(PyException(e))]
     ELSE [me EXCEPT
             !.pc = "done", !.stream = stream, !.output_image = output_image,
             !.fault = output_base64.cause,
             !.resp = IF output_base64.raised
                      THEN EditExcept(PyException(output_base64.cause))
                      ELSE HttpSuccess(output_base64.text, Len(me.args.image))]

\* qwen inference from the pipeline's return to its result.
EditUiReturn(me, outcome, e, stream) ==
  LET output_image == EngineImage(EditDigest(me.args), stream)
  IN IF outcome = "raises"
     THEN [me EXCEPT !.pc = "done", !.fault = e,
                     !.resp = UiExcept(PyException(e))]
     ELSE [me EXCEPT
             !.pc = "done", !.stream = stream, !.output_image = output_image,
             !.resp = UiSuccess(output_image, Len(me.args.image))]

HandlerReturn(me, outcome, e, stream, inference_duration, base64_duration) ==
  CASE me.handler = "image_generation" ->
         GenerationApiReturn(me, outcome, e, stream, inference_duration,
                             base64_duration)
    [] me.handler = "flux_inference" ->
         GenerationUiReturn(me, outcome, e, stream)
    [] me.handler = "image_edit" -> EditApiReturn(me, outcome, e, stream)
    [] me.handler = "qwen_inference" -> EditUiReturn(me, outcome, e, stream)

\* The pipeline reads the pixels of the images it is handed: an image whose
\* file is truncated makes it raise.
EngineReturn(w, outcome, e, inference_duration, base64_duration) ==
  /\ workers[w].pc = "engine"
  /\ (workers[w].handler # "image_generation" \/ outcome # "image") =>
       (inference_duration = 0 /\ base64_duration = 0)
  /\ (workers[w].handler = "image_generation" /\ outcome = "image") =>
       (inference_duration \in Durations /\ base64_duration \in Durations)
  /\ LET me == workers[w]
         gen == IF me.args.generator.global
                THEN defaultGen ELSE me.args.generator
         readable == \A i \in 1..Len(me.args.image) : Loads(me.args.image[i])
     IN /\ outcome # "raises" => readable
        /\ outcome = "encode_raises" => me.handler \in {"image_generation",
                                                         "image_edit"}
        /\ (outcome = "raises" /\ ~readable) => e = "image file is truncated"
        /\ (outcome = "raises" /\ readable) => e \in EngineErrors
        /\ workers' = [workers EXCEPT
                         ![w] = HandlerReturn(me, outcome, e, Stream(gen),
                                              inference_duration,
                                              base64_duration)]
        /\ defaultGen' =
             IF me.args.generator.global /\ outcome # "raises"
             THEN [defaultGen EXCEPT !.pos = @ + EngineDraws]
             ELSE defaultGen
  /\ UNCHANGED <<svc, proc, pipeline, ui, api, codec, launcher>>

\* The response has been sent, or the result shown: the worker is free.
Finish(w) ==
  /\ workers[w].pc = "done"
  /\ workers' = [workers EXCEPT ![w] = IdleWorker]
  /\ UNCHANGED <<svc, proc, pipeline, ui, api, defaultGen, codec, launcher>>

\* Variant of health that is run beside the event loop, as a handler
\* declared with def is: it answers whatever the loop is doing.
HealthInThread(w) ==
  /\ w = Loop
  /\ proc = "main"
  /\ api = "listening"
  /\ workers' = [workers EXCEPT ![w] =
       Done("health", NoReq,
            [NoResp EXCEPT !.kind = "http", !.status = 200, !.ok = TRUE,
                           !.msg = "healthy",
                           !.loaded = (pipeline # "unset")])]
  /\ UNCHANGED <<svc, proc, pipeline, ui, api, defaultGen, codec, launcher>>

\* GET /health
health(w) ==
  /\ w = Loop
  /\ proc = "main"
  /\ api = "listening"
  /\ workers[w].pc = "idle"
  /\ workers' = [workers EXCEPT ![w] =
       Done("health", NoReq,
            [NoResp EXCEPT !.kind = "http", !.status = 200, !.ok = TRUE,
                           !.msg = "healthy",
                           !.loaded = (pipeline # "unset")])]
  /\ UNCHANGED <<svc, proc, pipeline, ui, api, defaultGen, codec, launcher>>

(***************************************************************************)
(* Specifications.  Spec takes the requests one at a time, from the full   *)
(* input sets; SpecOverlap lets requests overlap (the event loop and the   *)
(* UI threads run side by side), on the small input sets.                  *)
(***************************************************************************)
Startup ==
  \/ LoadPipeline
  \/ LoadFails
  \/ ResolvePorts
  \/ StartGradioThread
  \/ \E bound \in BOOLEAN : run_gradio(bound)
  \/ \E bound \in BOOLEAN : UvicornRun(bound)
  \/ Terminate

ReturnsIn(durations) ==
  \/ \E w \in Workers, outcome \in EngineOutcomes,
        e \in EngineErrors \cup {"image file is truncated"},
        inference_duration \in durations \cup {0},
        base64_duration \in durations \cup {0} :
       EngineReturn(w, outcome, e, inference_duration, base64_duration)
  \/ \E w \in Workers : Finish(w)

Returns == ReturnsIn(Durations)

Next ==
  \/ Startup
  \/ Returns
  \/ \E w \in Workers : AllIdle /\ health(w)
  \/ \E w \in Workers, r \in GenerationRequests :
       AllIdle /\ image_generation(w, r)
  \/ \E w \in Workers, r \in GenerationRequests :
       AllIdle /\ flux_inference(w, r)
  \/ \E w \in Workers, r \in EditRequests : AllIdle /\ image_edit(w, r)
  \/ \E w \in Workers, r \in UiEditRequests : AllIdle /\ qwen_inference(w, r)

Spec == Init /\ [][Next]_vars

NextOverlap ==
  \/ Startup
  \/ ReturnsIn(SmallDurations)
  \/ \E w \in Workers : health(w)
  \/ \E w \in Workers, r \in SmallGenerationRequests : image_generation(w, r)
  \/ \E w \in Workers, r \in SmallGenerationRequests : flux_inference(w, r)
  \/ \E w \in Workers, r \in SmallEditRequests : image_edit(w, r)
  \/ \E w \in Workers, r \in SmallUiEditRequests : qwen_inference(w, r)

SpecOverlap == Init /\ [][NextOverlap]_vars

(***************************************************************************)
(* The launcher on its own: start-up under every setting of GRADIO_PORT    *)
(* and API_PORT, with GET /health as the only traffic.                     *)
(***************************************************************************)
InitLauncher ==
  /\ svc \in {"flux", "qwen"}
  /\ proc = "import"
  /\ pipeline = "unset"
  /\ ui = "off"
  /\ api = "off"
  /\ workers = [w \in Workers |-> IdleWorker]
  /\ defaultGen = [seed |-> 0, pos |-> 0]
  /\ codec = CodecIdle
  /\ \E g \in PortEnvValues, a \in PortEnvValues :
       launcher = Unresolved(g, a)

NextLauncher ==
  \/ Startup
  \/ \E w \in Workers : health(w)
  \/ \E w \in Workers : Finish(w)

SpecLauncher == InitLauncher /\ [][NextLauncher]_vars

(***************************************************************************)
(* MediaCodec on its own: an image is encoded, the text is passed on as it *)
(* is, with its prefix stripped, or with one more separator in front of    *)
(* the payload, and is decoded again.                                      *)
(***************************************************************************)
\* What a client that strips the prefix itself sends: the text after the
\* first separator.
AfterFirstComma(text) ==
  LET i == CHOOSE k \in 1..Len(text) :
             /\ text[k] = ","
             /\ \A j \in 1..(k - 1) : text[j] # ","
  IN SubSeq(text, i + 1, Len(text))

ExtraSegments == {<< >>, <<"A", "A", "A", "A">>}

InitCodec ==
  /\ svc = "qwen"
  /\ proc = "import"
  /\ pipeline = "unset"
  /\ ui = "off"
  /\ api = "off"
  /\ workers = [w \in Workers |-> IdleWorker]
  /\ defaultGen = [seed |-> 0, pos |-> 0]
  /\ launcher = Unresolved(None, None)
  /\ \E image \in Images :
       codec = [CodecIdle EXCEPT !.pc = "image", !.image = image]

CodecEncode ==
  /\ codec.pc = "image"
  /\ LET encoded == image_to_base64(codec.image) IN
       codec' = IF encoded.raised
                THEN [codec EXCEPT !.pc = "encode_raised"]
                ELSE [codec EXCEPT !.pc = "encoded", !.form = "prefixed",
                                   !.text = encoded.text]
  /\ UNCHANGED <<svc, proc, pipeline, ui, api, workers, defaultGen, launcher>>

CodecStripPrefix ==
  /\ codec.pc = "encoded"
  /\ codec.form = "prefixed"
  /\ codec' = [codec EXCEPT !.form = "stripped",
                            !.text = AfterFirstComma(codec.text)]
  /\ UNCHANGED <<svc, proc, pipeline, ui, api, workers, defaultGen, launcher>>

CodecExtraSeparator(segment) ==
  /\ codec.pc = "encoded"
  /\ codec.form = "prefixed"
  /\ codec' = [codec EXCEPT
                 !.form = "extra",
                 !.text = DataUriPrefix \o segment \o <<",">>
                          \o AfterFirstComma(codec.text)]
  /\ UNCHANGED <<svc, proc, pipeline, ui, api, workers, defaultGen, launcher>>

CodecDecode ==
  /\ codec.pc = "encoded"
  /\ codec' = [codec EXCEPT !.pc = "decoded",
                            !.result = base64_to_image(codec.text)]
  /\ UNCHANGED <<svc, proc, pipeline, ui, api, workers, defaultGen, launcher>>

NextCodec ==
  \/ CodecEncode
  \/ CodecStripPrefix
  \/ \E segment \in ExtraSegments : CodecExtraSeparator(segment)
  \/ CodecDecode

SpecCodec == InitCodec /\ [][NextCodec]_vars

(***************************************************************************)
(* Properties.                                                             *)
(***************************************************************************)
ApiHandlers == {"image_generation", "image_edit"}
UiHandlers == {"flux_inference", "qwen_inference"}
GenHandlers == {"image_generation", "flux_inference"}
EditHandlers == {"image_edit", "qwen_inference"}
InferenceHandlers == ApiHandlers \cup UiHandlers

\* The pipeline has been called for the worker's request.
Invoked(me) == me.args.prompt # None

\* The request lacks a prompt, or (edit) its list of images is empty.
LacksInput(me) ==
  \/ PromptMissing(me.req.prompt)
  \/ me.handler = "image_edit" /\ Len(me.req.images) = 0
  \/ me.handler = "qwen_inference" /\ me.req.files.shape \in {"none", "list"}
       /\ Len(me.req.files.items) = 0

FailureWithMessage(resp) ==
  resp.kind \in {"http", "ui"} /\ ~resp.ok /\ resp.msg # ""

\* C1: a request with an empty or whitespace-only prompt, or (edit) an empty
\* image list, never reaches the pipeline and is answered with a failure that
\* carries a message; in the API handlers every 4xx rejection is decided
\* before the pipeline is called.
C1_RejectedBeforeEngine ==
  \A w \in Workers :
    LET me == workers[w] IN
    me.handler \in InferenceHandlers =>
      /\ LacksInput(me) =>
           /\ ~Invoked(me)
           /\ me.pc = "done" => FailureWithMessage(me.resp)
      /\ (me.handler \in ApiHandlers /\ me.pc = "done"
            /\ me.resp.status \in {400, 422}) => ~Invoked(me)

\* The ranges of the bounded generation fields, as the specification gives
\* them (guidance scale in tenths).
BoundsOk(req) ==
  /\ req.height \in 256..2048
  /\ req.width \in 256..2048
  /\ req.guidance_scale \in 0..200
  /\ req.num_inference_steps \in 10..100
  /\ req.max_sequence_length \in 128..1024

\* The request fails validation as the specification defines it.
FailsValidation(me) ==
  IF me.handler = "image_generation"
  THEN PromptMissing(me.req.prompt) \/ ~BoundsOk(me.req)
  ELSE Len(me.req.images) = 0 \/ PromptMissing(me.req.prompt)

\* C2: on the HTTP API every validation failure (empty or whitespace-only
\* prompt, out-of-range bounded field, empty image list) is answered with
\* status 400.
C2_ValidationFailureIs400 ==
  \A w \in Workers :
    LET me == workers[w] IN
    (me.handler \in ApiHandlers /\ me.pc = "done" /\ FailsValidation(me))
      => me.resp.kind = "http" /\ me.resp.status = 400

\* C3: at every entry point a generation request is rejected, without the
\* pipeline being called, exactly when a bounded field is outside its range
\* (a request with no prompt is rejected as well); the limits themselves pass.
C3_BoundsEnforcedEverywhere ==
  \A w \in Workers :
    LET me == workers[w] IN
    me.handler \in GenHandlers =>
      /\ ~BoundsOk(me.req) =>
           /\ ~Invoked(me)
           /\ me.pc = "done" => FailureWithMessage(me.resp)
      /\ (BoundsOk(me.req) /\ ~PromptMissing(me.req.prompt)) => Invoked(me)

\* What was submitted as the image list of an edit request, and whether its
\* i-th element is a valid image.
Submitted(me) ==
  IF me.handler = "image_edit" THEN me.req.images ELSE me.req.files.items

SubmittedImage(me, i) ==
  IF me.handler = "image_edit"
  THEN base64_to_image(me.req.images[i])
  ELSE LET item == me.req.files.items[i] IN
       [raised |-> item.shape = "none" \/ ~item.opens, cause |-> "",
        image |-> item.image]

ValidElement(me, i) ==
  ~SubmittedImage(me, i).raised /\ Loads(SubmittedImage(me, i).image)

\* C4: an edit request is all or nothing: one element that is not a valid
\* image rejects the request without the pipeline being called, and the
\* pipeline, when called, gets as many images as were submitted, in the same
\* order, which is the input_count reported.
C4_EditAllOrNothing ==
  \A w \in Workers :
    LET me == workers[w] IN
    (me.handler \in EditHandlers /\ me.resp.kind # "raised") =>
      /\ (\E i \in 1..Len(Submitted(me)) : ~ValidElement(me, i)) =>
           /\ ~Invoked(me)
           /\ me.pc = "done" => ~me.resp.ok
      /\ Invoked(me) =>
           /\ Len(me.args.image) = Len(Submitted(me))
           /\ \A i \in 1..Len(me.args.image) :
                me.args.image[i].data = SubmittedImage(me, i).image.data
           /\ (me.pc = "done" /\ me.resp.ok)
                => me.resp.input_count = Len(Submitted(me))

\* The handler's decode step (decode, then conversion to RGB) raises on text.
ElementRaises(text) ==
  LET opened == base64_to_image(text) IN
  \/ opened.raised
  \/ opened.image.mode # "RGB" /\ ~Loads(opened.image)

FirstRaising(images) ==
  CHOOSE k \in 1..Len(images) :
    /\ ElementRaises(images[k])
    /\ \A j \in 1..(k - 1) : ~ElementRaises(images[j])

Handled(me) ==
  IF me.handler = "image_generation"
  THEN ImageGenerationRequest(me.req) ELSE ImageEditRequest(me.req)

\* C6: an API handler never lets an exception out: a request it handles ends
\* in exactly one of 200, 400 and 500; an exception of the pipeline call or
\* of the output encoding gives 500 with that exception's message; the
\* handler's own 400 rejections stay 400.
C6_ApiFaultsClassified ==
  \A w \in Workers :
    LET me == workers[w] IN
    (me.handler \in ApiHandlers /\ me.pc = "done") =>
      /\ me.resp.kind = "http"
      /\ Handled(me) => me.resp.status \in {200, 400, 500}
      /\ me.fault # "" =>
           /\ me.resp.status = 500
           /\ me.resp.msg = "inference_error"
           /\ me.resp.cause = me.fault
      /\ (Handled(me) /\ ~Invoked(me)) => me.resp.status = 400
      /\ (Invoked(me) /\ me.fault = "") => me.resp.status = 200 /\ me.resp.ok
      /\ me.resp.status = 200 <=> me.resp.ok

\* One request ended 500 because the output could not be encoded, after the
\* pipeline had returned.
C6_Witness ==
  \E w \in Workers :
    LET me == workers[w] IN
    /\ me.handler \in ApiHandlers
    /\ me.pc = "done"
    /\ me.stream # << >>
    /\ me.fault = "cannot write image as PNG"
    /\ me.resp.status = 500

\* C7: a UI function never raises: whatever it is given and whatever the
\* pipeline does, it returns (image, message) or (None, message).
C7_UiNeverRaises ==
  \A w \in Workers :
    LET me == workers[w] IN
    (me.handler \in UiHandlers /\ me.pc = "done") =>
      /\ me.resp.kind = "ui"
      /\ me.resp.msg # ""
      /\ me.resp.ok <=> me.resp.image # NoImage

GenSuccess(w) ==
  /\ workers[w].handler \in GenHandlers
  /\ workers[w].pc = "done"
  /\ workers[w].resp.ok

SameOutcome(w1, w2) ==
  /\ workers[w1].args = workers[w2].args
  /\ workers[w1].stream = workers[w2].stream
  /\ workers[w1].output_image = workers[w2].output_image

\* C8: two generation calls with the same prompt, dimensions and seed hand
\* the pipeline the same inputs and the same random stream and give the same
\* image, whatever else runs before or beside them.
C8_SamePromptSizeSeedSameImage ==
  \A w1, w2 \in Workers :
    (/\ GenSuccess(w1) /\ GenSuccess(w2)
     /\ workers[w1].req.prompt = workers[w2].req.prompt
     /\ workers[w1].req.height = workers[w2].req.height
     /\ workers[w1].req.width = workers[w2].req.width
     /\ workers[w1].req.seed = workers[w2].req.seed)
    => SameOutcome(w1, w2)

\* C8 as amended: every generation call gets a generator of its own seeded
\* from its request's seed and is handed the request's fields unchanged, so
\* its random stream is the one its seed fixes; two calls with the same
\* request (all seven fields), through either entry point, get the same
\* inputs, the same stream and the same image, whatever else runs before or
\* beside them.
C8_SameRequestSameImage ==
  /\ \A w \in Workers :
       LET me == workers[w] IN
       (me.handler \in GenHandlers /\ Invoked(me)) =>
         /\ me.args.generator = [global |-> FALSE, seed |-> me.req.seed,
                                 pos |-> 0]
         /\ me.args.prompt = me.req.prompt
         /\ me.args.height = me.req.height
         /\ me.args.width = me.req.width
         /\ me.args.guidance_scale = me.req.guidance_scale
         /\ me.args.num_inference_steps = me.req.num_inference_steps
         /\ me.args.max_sequence_length = me.req.max_sequence_length
         /\ (me.pc = "done" /\ me.resp.ok) =>
              me.stream = [i \in 1..EngineDraws |->
                             Draw(me.req.seed, i - 1)]
  /\ \A w1, w2 \in Workers :
       (GenSuccess(w1) /\ GenSuccess(w2)
          /\ workers[w1].req = workers[w2].req)
       => SameOutcome(w1, w2)

\* The API and a UI thread have both finished the same request, with the same
\* image, while a third call with another seed is inside the pipeline.
C8_Witness ==
  \E w1, w2, w3 \in Workers :
    /\ w1 = Loop /\ w2 # Loop /\ w3 \notin {w1, w2}
    /\ GenSuccess(w1) /\ GenSuccess(w2)
    /\ workers[w1].req = workers[w2].req
    /\ workers[w1].output_image = workers[w2].output_image
    /\ workers[w3].pc = "engine"
    /\ workers[w3].req.seed # workers[w1].req.seed

\* C9: whenever a listener has been started or a request is being handled
\* the pipeline is loaded (a failed load ends the process with no listener
\* started), and every answer of GET /health is 200, "healthy", with
\* pipeline_loaded true.
C9_HealthInvariant ==
  /\ (ui # "off" \/ api # "off") => pipeline = "loaded"
  /\ \A w \in Workers : workers[w].pc # "idle" => pipeline = "loaded"
  /\ proc = "exited" => (ui = "off" /\ api = "off" /\ AllIdle)
  /\ \A w \in Workers :
       LET me == workers[w] IN
       (me.handler = "health" /\ me.pc = "done") =>
         /\ me.resp.kind = "http"
         /\ me.resp.status = 200
         /\ me.resp.msg = "healthy"
         /\ me.resp.loaded

\* GET /health has been answered while a UI request is inside the pipeline.
C9_Witness ==
  \E w, u \in Workers :
    /\ workers[w].handler = "health"
    /\ workers[w].pc = "done"
    /\ workers[w].resp.loaded
    /\ workers[u].pc = "engine"

\* Decoding of a payload: base64, then Image.open.
DecodePayload(payload) ==
  LET img_data == b64decode(payload) IN
  IF img_data.raised
  THEN [raised |-> TRUE, cause |-> "Incorrect padding", image |-> NoImage]
  ELSE ImageOpen(img_data.bytes)

SumsToTotal(t) ==
  t.inference_time_seconds + t.encoding_time_seconds - t.total_time_seconds
    \in {0 - 1, 0, 1}

Numeric(env) == env # None /\ Len(env) > 0 /\ ~int(env).raised

\* The environment value is set, not empty and not a number.
NonNumeric(env) == env # None /\ Len(env) > 0 /\ int(env).raised

\* C12: once the ports are resolved, the UI port is the configured number
\* or else 8099, the API port is its own configured number or else the UI
\* port + 1, a value that is not a number has been replaced by the default
\* with a warning, and the two listeners have distinct ports that can be
\* bound.
C12_PortsResolvedDistinctBindable ==
  launcher.resolved =>
    /\ launcher.gradio_port =
         IF Numeric(launcher.gradio_port_env)
         THEN int(launcher.gradio_port_env).value ELSE DefaultGradioPort
    /\ launcher.api_port =
         IF Numeric(launcher.api_port_env)
         THEN int(launcher.api_port_env).value ELSE launcher.gradio_port + 1
    /\ NonNumeric(launcher.gradio_port_env) =>
         "GRADIO_PORT" \in launcher.warnings
    /\ NonNumeric(launcher.api_port_env) => "API_PORT" \in launcher.warnings
    /\ launcher.gradio_port # launcher.api_port
    /\ CanBind(launcher.gradio_port, {})
    /\ CanBind(launcher.api_port, {launcher.gradio_port})

(***************************************************************************)
(* Launcher lifecycle.                                                     *)
(***************************************************************************)
LauncherState ==
  CASE proc = "exited" -> "Stopped"
    [] proc # "exited" /\ api = "listening" -> "BothListening"
    [] proc # "exited" /\ api # "listening" /\ ui # "off" -> "UIStarting"
    [] OTHER -> "Unstarted"

LifecycleStep ==
  LET from == LauncherState
      to == LauncherState'
  IN \/ to = from
     \/ from = "Unstarted" /\ to = "UIStarting"
     \/ from = "UIStarting" /\ to = "BothListening"
     \/ from # "Stopped" /\ to = "Stopped"

\* C13: the launcher goes Unstarted, UIStarting, BothListening in this
\* order and never back, the UI thread being started before uvicorn runs on
\* the main thread and both after the pipeline is loaded; when the UI
\* listener has failed, uvicorn still runs and binds any port that can be
\* bound; Stopped is the exited process: nothing listens or runs in it and
\* it is never left.
C13_LauncherLifecycle ==
  /\ [][LifecycleStep]_vars
  /\ [](LauncherState \in {"UIStarting", "BothListening"} =>
          pipeline = "loaded")
  /\ []((proc = "main" /\ ui = "failed" /\ api = "off") =>
          /\ ENABLED (\E bound \in BOOLEAN : UvicornRun(bound))
          /\ CanBind(launcher.api_port, {}) => ENABLED UvicornRun(TRUE))
  /\ [](LauncherState = "Stopped" =>
          /\ ui = "off"
          /\ api = "off"
          /\ \A w \in Workers : workers[w].pc = "idle")

\* The API listener is up although the UI listener failed to start.
C13_Witness ==
  /\ LauncherState = "BothListening"
  /\ ui = "failed"
  /\ pipeline = "loaded"

(***************************************************************************)
(* Concurrent use of the pipeline.                                         *)
(***************************************************************************)
InPipeline == {w \in Workers : workers[w].pc = "engine"}

\* C14: nothing makes a handler wait for a pipeline call of another thread:
\* whenever its listener is up and its own thread is free, the generation
\* handler of either listener (and the edit function of the UI) can take a
\* request into the pipeline, whoever else is inside it; so the pipeline
\* can hold a call of the API and calls of several UI threads at once.
C14_NoMutualExclusion ==
  /\ \A w \in UiWorkers :
       (proc = "main" /\ ui = "listening" /\ workers[w].pc = "idle") =>
         /\ svc = "flux" => ENABLED flux_inference(w, DefaultGeneration)
         /\ svc = "qwen" => ENABLED qwen_inference(w, DefaultUiEdit)
  /\ (svc = "flux" /\ proc = "main" /\ api = "listening"
        /\ workers[Loop].pc = "idle") =>
       ENABLED image_generation(Loop, DefaultGeneration)

\* A call of the API handler and calls of two UI threads are inside the
\* generation pipeline at once.
C14_Witness ==
  /\ svc = "flux"
  /\ Loop \in InPipeline
  /\ workers[Loop].handler = "image_generation"
  /\ \E w1, w2 \in UiWorkers :
       /\ w1 # w2
       /\ {w1, w2} \subseteq InPipeline
       /\ workers[w1].handler = "flux_inference"
       /\ workers[w2].handler = "flux_inference"

(***************************************************************************)
(* What the edit handlers hand to the pipeline.                            *)
(***************************************************************************)
\* C15: every image in the list an edit request hands to the pipeline,
\* whether the request came through the API or through the UI, is in mode
\* RGB.
C15_EngineImagesAreRGB ==
  \A w \in Workers :
    LET me == workers[w] IN
    (me.handler \in EditHandlers /\ Invoked(me)) =>
      \A i \in 1..Len(me.args.image) : me.args.image[i].mode = "RGB"

\* C16: the negative prompt an edit request hands to the pipeline is the
\* request's own when it has one and " " when it has none (None or empty),
\* whether the request came through the API or through the UI, and the
\* pipeline is asked for one image per call.
C16_NegativePromptDefaulted ==
  \A w \in Workers :
    LET me == workers[w] IN
    (me.handler \in EditHandlers /\ Invoked(me)) =>
      /\ me.args.negative_prompt =
           IF me.req.negative_prompt = None \/ me.req.negative_prompt = << >>
           THEN <<" ">> ELSE me.req.negative_prompt
      /\ me.args.num_images_per_prompt = 1

(***************************************************************************)
(* The random stream of an edit call.                                      *)
(***************************************************************************)
\* The numbers a generator freshly seeded with seed yields.
StreamOfSeed(seed) == [i \in 1..EngineDraws |-> Draw(seed, i - 1)]

\* C17: the numbers the pipeline call of an edit request has drawn are the
\* ones the request's own seed fixes, whatever other edit requests the API
\* and the UI threads handle at the same time.
C17_EditStreamFromOwnSeed ==
  \A w \in Workers :
    LET me == workers[w] IN
    (me.handler \in EditHandlers /\ me.pc = "done" /\ me.resp.ok) =>
      me.stream = StreamOfSeed(me.req.seed)

(***************************************************************************)
(* The API listener's event loop.                                          *)
(***************************************************************************)
\* The loop starts on a request: an inference request or GET /health.
LoopTakesRequest ==
  /\ workers[Loop].handler' # workers[Loop].handler
  /\ workers[Loop].handler' \in ApiHandlers \cup {"health"}

\* C18: the API handlers and GET /health run on the event loop alone, one
\* at a time and each to its end: the loop takes a request only when it is
\* doing nothing, so GET /health is not answered while an API inference is
\* in progress and two API requests are never inside the pipeline together;
\* whenever two calls are inside the pipeline at once, at least one of them
\* comes from the UI.
C18_ApiLoopRunsToCompletion ==
  /\ [](\A w \in UiWorkers :
          workers[w].handler \notin ApiHandlers \cup {"health"})
  /\ [][LoopTakesRequest => workers[Loop].pc = "idle"]_vars
  /\ [](Cardinality({w \in InPipeline :
                       workers[w].handler \in ApiHandlers}) <= 1)
  /\ [](Cardinality(InPipeline) >= 2 =>
          \E w \in InPipeline : workers[w].handler \in UiHandlers)

\* GET /health has been answered while a UI call is inside the pipeline:
\* only the loop's own handlers delay it.
C18_Witness ==
  /\ workers[Loop].handler = "health"
  /\ workers[Loop].pc = "done"
  /\ workers[Loop].resp.status = 200
  /\ \E w \in UiWorkers : w \in InPipeline


====
